---- MODULE Spec2Model ----
(***************************************************************************)
(* Model of candidates/models/db.py: the review-reason aggregator          *)
(* (merge_dicts_with_list_values, LoggedActionQuerySet.in_recent_days and  *)
(* needs_review), the LoggedAction subject properties and the post_save    *)
(* hook that provisions a UserTermsAgreement.                              *)
(***************************************************************************)
EXTENDS Integers, Sequences, FiniteSets, TLC

VARIABLES
    created,            \* LoggedAction table: record id -> value of its created column (day)
    now,                \* datetime.now(), in days
    qs,                 \* the LoggedActionQuerySet at hand: its created__gte filters (lazy)
    needs_review_fns,   \* the imported registry of reason-functions
    op,                 \* the last operation performed, with its arguments
    ret,                \* what that operation returned or raised
    calls,              \* the reason-function calls the last operation made: argument and outcome
    mergeTrace,         \* the merge calls the last operation's reduce made
    dict_a, dict_b,     \* two mappings held by a caller of merge_dicts_with_list_values
    users,              \* auth User table: user id -> is_active
    agreements,         \* UserTermsAgreement table, in insertion order
    saves,              \* number of User.save() calls so far
    action,             \* the LoggedAction whose subject is rendered: its post and person
    posts               \* Post table: post id -> slugs of its elections with current=True

vars == <<created, now, qs, needs_review_fns, op, ret, calls, mergeTrace,
          dict_a, dict_b, users, agreements, saves, action, posts>>

reviewVars == <<created, now, qs, needs_review_fns>>
mergeVars == <<dict_a, dict_b>>
userVars == <<users, agreements, saves>>
subjectVars == <<action, posts>>

\* ---------------------------------------------------------------- bounds
MaxFns == 2         \* length of the reason-function registry
MaxReasons == 1     \* length of a reason list one reason-function returns for one record
MaxNow == 7         \* days the clock runs
MaxFilters == 2     \* chained in_recent_days() calls on one queryset
NumUsers == 3       \* user accounts
MaxSaves == 4       \* User.save() calls

NumPosts == 2       \* rows of the Post table
NumPersons == 2     \* rows of the Person table

RecordIds == {"rec1", "rec2"}
Reasons == {"missing source", "no note"}
DaysArgs == {1}     \* explicit arguments to in_recent_days, besides the default

\* ------------------------------------------------------------ data shapes
RECURSIVE SeqsUpTo(_, _)
SeqsUpTo(S, n) ==
    IF n = 0 THEN {<<>>}
    ELSE LET shorter == SeqsUpTo(S, n - 1)
         IN  shorter \cup {Append(s, x) : s \in {t \in shorter : Len(t) = n - 1}, x \in S}

ReasonLists == SeqsUpTo(Reasons, MaxReasons)

\* A Python dict from record identity to list of reasons.
Dicts(keys) == UNION {[K -> ReasonLists] : K \in SUBSET keys}

EmptyDict == [k \in {} |-> <<>>]

NoValue == [kind |-> "none", value |-> EmptyDict, by |-> 0]
Returned(d) == [kind |-> "return", value |-> d, by |-> 0]
Raised(i) == [kind |-> "raise", value |-> EmptyDict, by |-> i]

\* ------------------------------------------------- merge_dicts_with_list_values
dict_get(d, k, default) == IF k \in DOMAIN d THEN d[k] ELSE default

\* Variants of the merge with one slip each.
merge_b_before_a(a, b) ==
    [ret    |-> [k \in (DOMAIN a) \cup (DOMAIN b) |->
                     dict_get(b, k, <<>>) \o dict_get(a, k, <<>>)],
     dict_a |-> a,
     dict_b |-> b]

merge_b_overrides(a, b) ==
    [ret    |-> [k \in (DOMAIN a) \cup (DOMAIN b) |->
                     IF k \in DOMAIN b THEN b[k] ELSE a[k]],
     dict_a |-> a,
     dict_b |-> b]

merge_common_keys(a, b) ==
    [ret    |-> [k \in (DOMAIN a) \cap (DOMAIN b) |->
                     dict_get(a, k, <<>>) \o dict_get(b, k, <<>>)],
     dict_a |-> a,
     dict_b |-> b]

merge_drop_empty(a, b) ==
    [ret    |-> [k \in {x \in (DOMAIN a) \cup (DOMAIN b) :
                            dict_get(a, x, <<>>) \o dict_get(b, x, <<>>) # <<>>} |->
                     dict_get(a, k, <<>>) \o dict_get(b, k, <<>>)],
     dict_a |-> a,
     dict_b |-> b]

merge_in_place(a, b) ==
    LET merged == [k \in (DOMAIN a) \cup (DOMAIN b) |->
                       dict_get(a, k, <<>>) \o dict_get(b, k, <<>>)]
    IN  [ret |-> merged, dict_a |-> merged, dict_b |-> b]

\* The value returned, and the two argument objects as the caller sees them
\* after the call.
merge_dicts_with_list_values(a, b) ==
    [ret    |-> [k \in (DOMAIN a) \cup (DOMAIN b) |->
                     dict_get(a, k, <<>>) \o dict_get(b, k, <<>>)],
     dict_a |-> a,
     dict_b |-> b]

\* ------------------------------------------------------- reason-functions
\* A reason-function either raises, or returns for the records of the collection
\* it is given the reasons it has for them.
ReasonFns ==
    {[raises |-> FALSE, flags |-> d] : d \in Dicts(RecordIds)}
        \cup {[raises |-> TRUE, flags |-> EmptyDict]}

call_reason_fn(f, coll) ==
    IF f.raises THEN Raised(1)
    ELSE Returned([k \in (DOMAIN f.flags) \cap coll |-> f.flags[k]])

\* --------------------------------------------------- LoggedActionQuerySet
\* The rows a queryset yields when it is evaluated.
rows(table, filters) == {r \in DOMAIN table : \A t \in filters : table[r] >= t}

in_recent_days_default == 5

in_recent_days_ahead(self, days, clock) == self \cup {clock + days}

in_recent_days(self, days, clock) == self \cup {clock - days}

\* [f(self) for f in needs_review_fns]: the functions are called in list order;
\* the first one that raises ends the comprehension.
RECURSIVE list_comprehension_skipping(_, _, _, _)
list_comprehension_skipping(fns, self, i, acc) ==
    IF i > Len(fns) THEN [raised |-> 0, values |-> acc.values, calls |-> acc.calls]
    ELSE LET r == call_reason_fn(fns[i], self)
             made == Append(acc.calls, [self |-> self, out |-> r])
         IN  list_comprehension_skipping(fns, self, i + 1,
                 [values |-> IF r.kind = "raise" THEN acc.values
                             ELSE Append(acc.values, r.value),
                  calls  |-> made])

RECURSIVE list_comprehension(_, _, _, _)
list_comprehension(fns, self, i, acc) ==
    IF i > Len(fns) THEN [raised |-> 0, values |-> acc.values, calls |-> acc.calls]
    ELSE LET r == call_reason_fn(fns[i], self)
             made == Append(acc.calls, [self |-> self, out |-> r])
         IN  IF r.kind = "raise"
             THEN [raised |-> i, values |-> acc.values, calls |-> made]
             ELSE list_comprehension(fns, self, i + 1,
                      [values |-> Append(acc.values, r.value), calls |-> made])

\* reduce(merge_dicts_with_list_values, values, initial)
RECURSIVE reduce(_, _, _, _)
reduce(values, i, accumulator, trace) ==
    IF i > Len(values) THEN [ret |-> accumulator, trace |-> trace]
    ELSE LET m == merge_dicts_with_list_values(accumulator, values[i])
         IN  reduce(values, i + 1, m.ret,
                    Append(trace, [a |-> accumulator, b |-> values[i],
                                   a_after |-> m.dict_a, b_after |-> m.dict_b]))

needs_review(self, fns) ==
    LET lc == list_comprehension(fns, self, 1, [values |-> <<>>, calls |-> <<>>])
        rd == reduce(lc.values, 1, EmptyDict, <<>>)
    IN  IF lc.raised > 0
        THEN [ret |-> Raised(lc.raised), calls |-> lc.calls, trace |-> <<>>]
        ELSE [ret |-> Returned(rd.ret), calls |-> lc.calls, trace |-> rd.trace]

\* ------------------------------------------------------ UserTermsAgreement
UserIds == 1..NumUsers

\* UserTermsAgreement.objects.create(user=instance): assigned_to_dc takes its
\* default; the one-to-one column refuses a second row for the same user.
UserTermsAgreement_create(table, instance) ==
    IF \E i \in 1..Len(table) : table[i].user = instance
    THEN [table |-> table, integrity_error |-> TRUE]
    ELSE [table |-> Append(table, [user |-> instance, assigned_to_dc |-> FALSE]),
          integrity_error |-> FALSE]

create_user_terms_agreement_unless_created(table, instance, was_created) ==
    IF ~was_created THEN UserTermsAgreement_create(table, instance)
    ELSE [table |-> table, integrity_error |-> FALSE]

\* The post_save receiver connected for sender=User.
create_user_terms_agreement(table, instance, was_created) ==
    IF was_created THEN UserTermsAgreement_create(table, instance)
    ELSE [table |-> table, integrity_error |-> FALSE]

\* ------------------------------------------------------ LoggedAction subject
NoRef == 0          \* a null foreign key
PostIds == 1..NumPosts
PersonIds == 1..NumPersons
Elections == {"2010", "2015"}

PyNone == [py |-> "None", s |-> <<>>]
PyStr(pieces) == [py |-> "str", s |-> pieces]
PyRaise(exc) == [py |-> "raise", s |-> <<exc>>]

Digits == <<"0", "1", "2", "3", "4", "5", "6", "7", "8", "9">>

\* str(n) for n >= 0, as the sequence of its decimal digits
RECURSIVE int_str(_)
int_str(n) == IF n < 10 THEN <<Digits[n + 1]>> ELSE int_str(n \div 10) \o <<Digits[(n % 10) + 1]>>

\* post.extra.slug, post.extra.short_label and person.name of the rows
post_slug(p) == <<"post-">> \o int_str(p)
post_short_label(p) == <<"Post", " ">> \o int_str(p)
person_name(q) == <<"Person", " ">> \o int_str(q)

slugify_piece(c) == IF c = " " THEN "-" ELSE IF c = "Post" THEN "post" ELSE c
slugify(text) == [i \in 1..Len(text) |-> slugify_piece(text[i])]

\* post.extra.elections.get(current=True)
elections_get_current(table, p) ==
    IF Cardinality(table[p]) = 0 THEN PyRaise("DoesNotExist")
    ELSE IF Cardinality(table[p]) > 1 THEN PyRaise("MultipleObjectsReturned")
    ELSE PyStr(<<CHOOSE e \in table[p] : TRUE>>)

reverse_constituency(election, post_id, ignored_slug) ==
    PyStr(<<"constituency", "/">> \o election \o <<"/">> \o post_id \o <<"/">> \o ignored_slug)

reverse_person_view(person_id) == PyStr(<<"person-view", "/">> \o int_str(person_id))

subject_url(self, table) ==
    IF self.post # NoRef
    THEN LET election == elections_get_current(table, self.post)
         IN  IF election.py = "raise" THEN election
             ELSE reverse_constituency(election.s, post_slug(self.post),
                                       slugify(post_short_label(self.post)))
    ELSE IF self.person # NoRef
    THEN reverse_person_view(self.person)
    ELSE PyNone

\* '<a href="{url}">{text} ({id})</a>'.format(...)
format_link(url, text, id) ==
    PyStr(<<"<a href=\"">> \o url \o <<"\">">> \o text \o <<" (">> \o id \o <<")</a>">>)

subject_html(self, table) ==
    IF self.post # NoRef
    THEN LET url == subject_url(self, table)
         IN  IF url.py = "raise" THEN url
             ELSE format_link(url.s, post_short_label(self.post), post_slug(self.post))
    ELSE IF self.person # NoRef
    THEN LET url == subject_url(self, table)
         IN  format_link(url.s, person_name(self.person), int_str(self.person))
    ELSE PyStr(<<>>)

\* ------------------------------------------------------------------ actions
Idle == [name |-> "init", defaulted |-> FALSE, days |-> 0, at |-> 0]
Did(name, clock) == [name |-> name, defaulted |-> FALSE, days |-> 0, at |-> clock]

\* LoggedAction.objects.create(...): auto_now_add stamps created.
CreateLoggedAction ==
    \E r \in RecordIds \ DOMAIN created :
        /\ created' = [x \in (DOMAIN created) \cup {r} |->
                           IF x = r THEN now ELSE created[x]]
        /\ op' = Did("create", now)
        /\ ret' = NoValue /\ calls' = <<>> /\ mergeTrace' = <<>>
        /\ UNCHANGED <<now, qs, needs_review_fns>>
        /\ UNCHANGED <<mergeVars, userVars, subjectVars>>

Tick ==
    /\ now < MaxNow
    /\ now' = now + 1
    /\ op' = Did("tick", now)
    /\ ret' = NoValue /\ calls' = <<>> /\ mergeTrace' = <<>>
    /\ UNCHANGED <<created, qs, needs_review_fns>>
    /\ UNCHANGED <<mergeVars, userVars, subjectVars>>

\* qs = qs.in_recent_days()
InRecentDaysDefault ==
    /\ Cardinality(qs) < MaxFilters
    /\ qs' = in_recent_days(qs, in_recent_days_default, now)
    /\ op' = [name |-> "in_recent_days", defaulted |-> TRUE, days |-> 0, at |-> now]
    /\ ret' = NoValue /\ calls' = <<>> /\ mergeTrace' = <<>>
    /\ UNCHANGED <<created, now, needs_review_fns>>
    /\ UNCHANGED <<mergeVars, userVars, subjectVars>>

\* qs = qs.in_recent_days(days)
InRecentDaysArg ==
    \E days \in DaysArgs :
        /\ Cardinality(qs) < MaxFilters
        /\ qs' = in_recent_days(qs, days, now)
        /\ op' = [name |-> "in_recent_days", defaulted |-> FALSE, days |-> days, at |-> now]
        /\ ret' = NoValue /\ calls' = <<>> /\ mergeTrace' = <<>>
        /\ UNCHANGED <<created, now, needs_review_fns>>
        /\ UNCHANGED <<mergeVars, userVars, subjectVars>>

\* needs_review() run on the whole table instead of on the queryset.
NeedsReviewOfAll ==
    /\ LET r == needs_review(DOMAIN created, needs_review_fns)
       IN  /\ ret' = r.ret
           /\ calls' = r.calls
           /\ mergeTrace' = r.trace
    /\ op' = Did("needs_review", now)
    /\ UNCHANGED <<created, now, qs, needs_review_fns>>
    /\ UNCHANGED <<mergeVars, userVars, subjectVars>>

\* qs.needs_review()
NeedsReview ==
    /\ LET r == needs_review(rows(created, qs), needs_review_fns)
       IN  /\ ret' = r.ret
           /\ calls' = r.calls
           /\ mergeTrace' = r.trace
    /\ op' = Did("needs_review", now)
    /\ UNCHANGED <<created, now, qs, needs_review_fns>>
    /\ UNCHANGED <<mergeVars, userVars, subjectVars>>

\* merge_dicts_with_list_values(dict_a, dict_b), called on its own
MergeCall ==
    /\ LET m == merge_dicts_with_list_values(dict_a, dict_b)
       IN  /\ ret' = Returned(m.ret)
           /\ dict_a' = m.dict_a
           /\ dict_b' = m.dict_b
    /\ op' = [name |-> "merge", a |-> dict_a, b |-> dict_b]
    /\ calls' = <<>> /\ mergeTrace' = <<>>
    /\ UNCHANGED <<reviewVars, userVars, subjectVars>>

\* User.save() of a new account, followed by the post_save signal
CreateUser ==
    \E u \in UserIds \ DOMAIN users, active \in BOOLEAN :
        /\ saves < MaxSaves
        /\ saves' = saves + 1
        /\ users' = [x \in (DOMAIN users) \cup {u} |-> IF x = u THEN active ELSE users[x]]
        /\ LET r == create_user_terms_agreement(agreements, u, TRUE)
           IN  /\ agreements' = r.table
               /\ ret' = IF r.integrity_error THEN Raised(1) ELSE NoValue
        /\ op' = [name |-> "save", user |-> u, created |-> TRUE]
        /\ calls' = <<>> /\ mergeTrace' = <<>>
        /\ UNCHANGED <<reviewVars, mergeVars, subjectVars>>

\* User.save() of an existing account, followed by the post_save signal
UpdateUser ==
    \E u \in DOMAIN users :
        /\ saves < MaxSaves
        /\ saves' = saves + 1
        /\ users' = [users EXCEPT ![u] = ~users[u]]
        /\ LET r == create_user_terms_agreement(agreements, u, FALSE)
           IN  /\ agreements' = r.table
               /\ ret' = IF r.integrity_error THEN Raised(1) ELSE NoValue
        /\ op' = [name |-> "save", user |-> u, created |-> FALSE]
        /\ calls' = <<>> /\ mergeTrace' = <<>>
        /\ UNCHANGED <<reviewVars, mergeVars, subjectVars>>

\* logged_action.subject_url
SubjectUrl ==
    /\ ret' = subject_url(action, posts)
    /\ op' = [name |-> "subject_url"]
    /\ calls' = <<>> /\ mergeTrace' = <<>>
    /\ UNCHANGED <<reviewVars, mergeVars, userVars, subjectVars>>

\* logged_action.subject_html
SubjectHtml ==
    /\ ret' = subject_html(action, posts)
    /\ op' = [name |-> "subject_html"]
    /\ calls' = <<>> /\ mergeTrace' = <<>>
    /\ UNCHANGED <<reviewVars, mergeVars, userVars, subjectVars>>

\* ----------------------------------------------------------- specifications
InitUsers == users = EmptyDict /\ agreements = <<>> /\ saves = 0
InitSubject == action = [post |-> NoRef, person |-> NoRef] /\ posts = EmptyDict
InitDicts == dict_a = EmptyDict /\ dict_b = EmptyDict
InitCall == op = Idle /\ ret = NoValue /\ calls = <<>> /\ mergeTrace = <<>>

\* The reason-function that returns exactly the mapping d, whatever it is given
\* records for.
Flagging(d) == [raises |-> FALSE, flags |-> d]

\* The aggregator over every registry, on a store of two records.
InitReview ==
    /\ created = [r \in RecordIds |-> 0]
    /\ now = 0
    /\ qs = {}
    /\ needs_review_fns \in SeqsUpTo(ReasonFns, MaxFns)
    /\ InitCall /\ InitDicts /\ InitUsers /\ InitSubject

NextReview == NeedsReview

SpecReview == InitReview /\ [][NextReview]_vars

\* The merge on every pair of mappings, and the aggregator over the
\* reason-functions that produce them.
InitMerge ==
    /\ created = [r \in RecordIds |-> 0]
    /\ now = 0
    /\ qs = {}
    /\ dict_a \in Dicts(RecordIds)
    /\ dict_b \in Dicts(RecordIds)
    /\ needs_review_fns \in {<<>>, <<Flagging(dict_a)>>, <<Flagging(dict_a), Flagging(dict_b)>>}
    /\ InitCall /\ InitUsers /\ InitSubject

NextMerge == MergeCall \/ NeedsReview

SpecMerge == InitMerge /\ [][NextMerge]_vars

\* The trailing-window filter on a store that grows as the clock runs.
FlagAll(reason) == Flagging([r \in RecordIds |-> <<reason>>])

InitRecent ==
    /\ created = EmptyDict
    /\ now = 0
    /\ qs = {}
    /\ needs_review_fns \in {<<FlagAll("missing source")>>,
                              <<Flagging([r \in {"rec1"} |-> <<"no note">>]),
                                FlagAll("missing source")>>}
    /\ InitCall /\ InitDicts /\ InitUsers /\ InitSubject

NextRecent ==
    \/ CreateLoggedAction
    \/ Tick
    \/ InRecentDaysDefault
    \/ InRecentDaysArg
    \/ NeedsReview

SpecRecent == InitRecent /\ [][NextRecent]_vars

InitStore == created = EmptyDict /\ now = 0 /\ qs = {} /\ needs_review_fns = <<>>

\* Accounts saved for the first time and saved again.
InitAccounts == InitStore /\ InitCall /\ InitDicts /\ InitUsers /\ InitSubject

NextAccounts == CreateUser \/ UpdateUser

SpecAccounts == InitAccounts /\ [][NextAccounts]_vars

\* The subject of every LoggedAction, over posts with none, one or two current
\* elections.
InitRender ==
    /\ InitStore /\ InitCall /\ InitDicts /\ InitUsers
    /\ posts \in [PostIds -> SUBSET Elections]
    /\ action \in [post : {NoRef} \cup PostIds, person : {NoRef} \cup PersonIds]

NextRender == SubjectUrl \/ SubjectHtml

SpecRender == InitRender /\ [][NextRender]_vars

\* ------------------------------------------------------------------- claims
Reviewed == op.name = "needs_review"
ReviewReturned == Reviewed /\ ret.kind = "return"

\* The mappings the reason-functions returned, in call order.
Outputs == [i \in 1..Len(calls) |-> calls[i].out.value]

RECURSIVE ConcatFrom(_, _, _)
ConcatFrom(k, outs, i) ==
    IF i > Len(outs) THEN <<>>
    ELSE (IF k \in DOMAIN outs[i] THEN outs[i][k] ELSE <<>>) \o ConcatFrom(k, outs, i + 1)

\* The records a queryset with the given created__gte thresholds holds.
Within(table, thresholds) ==
    {r \in DOMAIN table : \A t \in thresholds : ~(table[r] < t)}

\* C1: the mapping needs_review() returns gives every key the concatenation, in
\* registry order f1..fn, of the lists the reason-functions returned for it.
C1_ConcatenationInRegistryOrder ==
    ReviewReturned =>
        /\ Len(calls) = Len(needs_review_fns)
        /\ \A k \in DOMAIN ret.value : ret.value[k] = ConcatFrom(k, Outputs, 1)

C1_Witness ==
    /\ ReviewReturned
    /\ Len(calls) = 2
    /\ Outputs[1] = [k \in {"rec1"} |-> <<"missing source">>]
    /\ Outputs[2] = [k \in {"rec1", "rec2"} |->
                         IF k = "rec1" THEN <<"no note">> ELSE <<"missing source">>]
    /\ ret.value = [k \in {"rec1", "rec2"} |->
                        IF k = "rec1" THEN <<"missing source", "no note">>
                        ELSE <<"missing source">>]

\* C2: the merge maps a key of both mappings to dict_a's list followed by
\* dict_b's list, and a key of only one of them to that mapping's list.
C2_MergeConcatenatesSharedKeys ==
    op.name = "merge" =>
        \A k \in DOMAIN ret.value :
            /\ (k \in DOMAIN op.a /\ k \in DOMAIN op.b) => ret.value[k] = op.a[k] \o op.b[k]
            /\ (k \in DOMAIN op.a /\ k \notin DOMAIN op.b) => ret.value[k] = op.a[k]
            /\ (k \notin DOMAIN op.a /\ k \in DOMAIN op.b) => ret.value[k] = op.b[k]

C2_Witness ==
    /\ op.name = "merge"
    /\ DOMAIN op.a = {"rec1", "rec2"}
    /\ DOMAIN op.b = {"rec1"}
    /\ op.a["rec1"] # <<>> /\ op.b["rec1"] # <<>> /\ op.a["rec1"] # op.b["rec1"]
    /\ ret.value["rec1"] = op.a["rec1"] \o op.b["rec1"]
    /\ ret.value["rec2"] = op.a["rec2"]

\* C3: the keys of the mapping needs_review() returns are exactly the keys that
\* at least one reason-function returned.
C3_KeysAreUnionOfReturnedKeys ==
    ReviewReturned =>
        DOMAIN ret.value = UNION {DOMAIN Outputs[i] : i \in 1..Len(calls)}

C3_Witness ==
    /\ ReviewReturned
    /\ Len(calls) = 2
    /\ DOMAIN Outputs[1] = {"rec1"}
    /\ DOMAIN Outputs[2] = {}
    /\ DOMAIN ret.value = {"rec1"}

\* C5: in_recent_days(days) keeps exactly the records of the queryset created at
\* or after now - days, days being 5 when not given, and a following
\* needs_review() hands exactly the kept records to every reason-function.
C5_InRecentDaysWindow ==
    [][/\ op'.name = "in_recent_days" =>
            LET days == IF op'.defaulted THEN 5 ELSE op'.days
            IN  Within(created', qs') =
                    {r \in Within(created, qs) : created[r] >= now - days}
       /\ op'.name = "needs_review" =>
            /\ Len(calls') = Len(needs_review_fns)
            /\ \A i \in 1..Len(calls') : calls'[i].self = Within(created, qs)]_vars

C5_Witness ==
    /\ Reviewed
    /\ qs = {now - 5}
    /\ DOMAIN created = {"rec1", "rec2"}
    /\ created["rec1"] = now - 6
    /\ created["rec2"] = now - 1
    /\ \A i \in 1..Len(calls) : calls[i].self = {"rec2"}

\* C6: when a reason-function raises, needs_review() ends with that error and
\* returns no mapping; nothing is merged and no later function is called.
C6_ErrorPropagates ==
    (Reviewed /\ \E i \in 1..Len(needs_review_fns) : needs_review_fns[i].raises) =>
        /\ ret.kind = "raise"
        /\ needs_review_fns[ret.by].raises
        /\ \A j \in 1..(ret.by - 1) : ~needs_review_fns[j].raises
        /\ ret.value = EmptyDict
        /\ mergeTrace = <<>>
        /\ Len(calls) = ret.by

C6_Witness ==
    /\ Reviewed
    /\ Len(needs_review_fns) = 2
    /\ ~needs_review_fns[1].raises /\ needs_review_fns[1].flags # EmptyDict
    /\ needs_review_fns[2].raises
    /\ ret.kind = "raise"

\* C7: merging a mapping with the empty mapping, on either side, returns the
\* mapping, and needs_review() with an empty registry returns the empty mapping.
C7_EmptyMappingIsNeutral ==
    /\ (op.name = "merge" /\ op.b = EmptyDict) => ret.value = op.a
    /\ (op.name = "merge" /\ op.a = EmptyDict) => ret.value = op.b
    /\ (Reviewed /\ needs_review_fns = <<>>) => ret = Returned(EmptyDict)

C7_Witness ==
    /\ op.name = "merge"
    /\ op.b = EmptyDict
    /\ DOMAIN op.a = {"rec1", "rec2"}
    /\ op.a["rec1"] = <<>> /\ op.a["rec2"] # <<>>
    /\ ret.value = op.a

C9_NothingWritten ==
    [][/\ op'.name = "merge" =>
            /\ dict_a' = dict_a /\ dict_b' = dict_b
            /\ created' = created /\ qs' = qs
       /\ op'.name = "needs_review" =>
            /\ created' = created /\ qs' = qs /\ needs_review_fns' = needs_review_fns
            /\ \A i \in 1..Len(mergeTrace') :
                    /\ mergeTrace'[i].a_after = mergeTrace'[i].a
                    /\ mergeTrace'[i].b_after = mergeTrace'[i].b]_vars

C9_Witness ==
    /\ Reviewed
    /\ Len(mergeTrace) = 2
    /\ mergeTrace[2].a # EmptyDict /\ mergeTrace[2].b # EmptyDict
    /\ DOMAIN created # {}

\* The rows of the UserTermsAgreement table that belong to user u.
AgreementsOf(u) == {i \in 1..Len(agreements) : agreements[i].user = u}

\* C4: every saved account has exactly one UserTermsAgreement; the hook adds
\* one row, with assigned_to_dc false, on a save with created=true and leaves the
\* table alone on a save with created=false.
C4_OneAgreementPerUser ==
    /\ [](\A u \in UserIds :
             Cardinality(AgreementsOf(u)) = (IF u \in DOMAIN users THEN 1 ELSE 0))
    /\ [][op'.name = "save" =>
            /\ ret'.kind # "raise"
            /\ op'.created =>
                  agreements' = agreements \o <<[user |-> op'.user, assigned_to_dc |-> FALSE]>>
            /\ ~op'.created => agreements' = agreements]_vars

C4_Witness ==
    /\ op.name = "save" /\ ~op.created
    /\ saves = MaxSaves
    /\ Cardinality(DOMAIN users) = 2
    /\ Len(agreements) = 2
    /\ \A i \in 1..Len(agreements) : ~agreements[i].assigned_to_dc

\* The text holds the given run of pieces.
Contains(text, part) ==
    \E i \in 0..(Len(text) - Len(part)) : \A j \in 1..Len(part) : text[i + j] = part[j]

\* C10: subject_url and subject_html describe the post when the record has one
\* (also when it has a person too), the person when it has only a person, and are
\* None and the empty string when it has neither; never None or empty otherwise.
C10_SubjectUrlAndHtmlAgree ==
    /\ op.name = "subject_url" =>
         /\ action.post # NoRef =>
               /\ ret.py = "str"
               /\ ret.s[1] = "constituency"
               /\ Contains(ret.s, <<"post-">> \o <<Digits[action.post + 1]>>)
         /\ (action.post = NoRef /\ action.person # NoRef) =>
               /\ ret.py = "str"
               /\ ret.s = <<"person-view", "/", Digits[action.person + 1]>>
         /\ (action.post = NoRef /\ action.person = NoRef) => ret = PyNone
    /\ op.name = "subject_html" =>
         /\ action.post # NoRef =>
               /\ ret.py = "str"
               /\ Contains(ret.s, <<"constituency", "/">>)
               /\ Contains(ret.s, <<"Post", " ", Digits[action.post + 1], " (", "post-",
                                    Digits[action.post + 1], ")</a>">>)
         /\ (action.post = NoRef /\ action.person # NoRef) =>
               /\ ret.py = "str"
               /\ Contains(ret.s, <<"person-view", "/", Digits[action.person + 1], "\">",
                                    "Person", " ", Digits[action.person + 1], " (",
                                    Digits[action.person + 1], ")</a>">>)
         /\ (action.post = NoRef /\ action.person = NoRef) => ret = PyStr(<<>>)

====
